---- MODULE Spec2Model ----
(***************************************************************************)
(* Authentication and credential lifecycle of the SOW backend              *)
(* (src/src/apps/auth/routes.py, src/src/apps/auth/utils.py).              *)
(*                                                                         *)
(* The store is the users table.  Every request handler is a process that  *)
(* runs between its database operations: the query that opens it, the      *)
(* commit that writes the columns it assigned, and the call to the mail    *)
(* sender.  Handlers of different clients interleave at those points only. *)
(* Time is counted in minutes.                                             *)
(***************************************************************************)
EXTENDS Integers, Sequences, FiniteSets, TLC

VARIABLES
    users,      \* the users table: a sequence of rows, id = position
    now,        \* datetime.utcnow(), in minutes
    req,        \* per client: the handler in flight and its locals
    resp,       \* per client: the last HTTP response it received
    held        \* tokens delivered to the users (mail, login) and kept

vars == <<users, now, req, resp, held>>

---------------------------------------------------------------------------
(* Universes of the inputs and bounds of the model *)

Emails == {"a@x.com", "b@x.com"}
Registrable == {"a@x.com"}    \* the addresses that register
Passwords == {"pw1", "pw2"}
Clients == {1, 2}
\* The instants the clock is sampled at.  At 60, one hour after 0, a reset
\* token of instant 0 is at its expiry and an access token of instant 0 is
\* past its own; at 10081 every token of instant 0 is past its expiry, the
\* refresh token with its 7 days included.
Instants == {0, 60, 10081}

MaxUsers == 2     \* rows the table may hold
MaxHeld == 1      \* tokens the users keep at a time

---------------------------------------------------------------------------
(* Values *)

None == "None"
NULL == [kind |-> "null"]
NullTime == -1

SECRET_KEY == "SECRET_KEY"
ACCESS_TOKEN_EXPIRE_MINUTES == 30
EMAIL_TOKEN_EXPIRE_HOURS == 24
REFRESH_TOKEN_EXPIRE_DAYS == 7
RESET_TOKEN_EXPIRE_HOURS == 1

Hours(h) == h * 60
Days(d) == d * 24 * 60

(* Password hasher *)

_hash_password_for_bcrypt(password) == <<"sha256", password>>

\* pwd_context.hash: the salt bcrypt draws is left out, it has no part in
\* what verify answers.
get_password_hash(password) ==
    [scheme |-> "bcrypt", digest |-> _hash_password_for_bcrypt(password)]

verify_password(plain_password, hashed_password) ==
    /\ hashed_password.scheme = "bcrypt"
    /\ hashed_password.digest = _hash_password_for_bcrypt(plain_password)

(* Token codec *)

jwt_encode(payload, key) == [kind |-> "jwt", payload |-> payload, key |-> key]

create_access_token(sub, t) ==
    jwt_encode([sub |-> sub, exp |-> t + ACCESS_TOKEN_EXPIRE_MINUTES,
                type |-> None], SECRET_KEY)

create_refresh_token(sub, t) ==
    jwt_encode([sub |-> sub, exp |-> t + Days(REFRESH_TOKEN_EXPIRE_DAYS),
                type |-> "refresh"], SECRET_KEY)

create_email_verification_token(email, t) ==
    jwt_encode([sub |-> email, exp |-> t + Hours(EMAIL_TOKEN_EXPIRE_HOURS),
                type |-> "email_verification"], SECRET_KEY)

\* Mutant: decode does not look at the exp claim.
jwt_decode_noExpiry(token, key, t) ==
    IF token.kind = "jwt" /\ token.key = key
    THEN [ok |-> TRUE, payload |-> token.payload]
    ELSE [ok |-> FALSE]

\* jose's jwt.decode: the signature must be the key's, and the token is
\* expired once exp < now.
jwt_decode(token, key, t) ==
    IF token.kind = "jwt" /\ token.key = key /\ ~(token.payload.exp < t)
    THEN [ok |-> TRUE, payload |-> token.payload]
    ELSE [ok |-> FALSE]

verify_token(token, token_type, t) ==
    LET d == jwt_decode(token, SECRET_KEY, t) IN
    IF ~d.ok THEN None
    ELSE IF token_type # "access" /\ d.payload.type # token_type THEN None
    ELSE d.payload.sub

\* What a caller can present without having been given it: a string that is
\* no token, and a well-formed access token signed with another key.
Garbage == [kind |-> "garbage"]
Forged == jwt_encode([sub |-> "a@x.com", exp |-> 20000, type |-> None], "k")
\* Well-formed tokens of the codec for the addresses that register, issued
\* at instant 0.  login creates such a pair and never delivers it, so the
\* ones a request carries are taken from the codec.
Minted ==
    {create_access_token(e, 0) : e \in Registrable}
        \cup {create_refresh_token(e, 0) : e \in Registrable}
TokenInputs == held \cup {Garbage, Forged} \cup Minted

---------------------------------------------------------------------------
(* Credential store *)

Ids == 1..Len(users)

\* db.query(User).filter(User.email == email).first(): 0 when no row matches
FindByEmail(email) ==
    LET m == {i \in Ids : users[i].email = email} IN
    IF m = {} THEN 0 ELSE CHOOSE i \in m : \A j \in m : i <= j

\* db.query(User).filter(User.reset_token == token).first()
FindByResetToken(token) ==
    LET m == {i \in Ids : users[i].reset_token = token} IN
    IF m = {} THEN 0 ELSE CHOOSE i \in m : \A j \in m : i <= j

\* Mutant: the table has no unique index on the email.
InsertAlways(row) == TRUE

\* The unique index on users.email: an insert of a second row with the
\* email fails.
InsertAllowed(row) == \A i \in Ids : users[i].email # row.email

\* Column defaults of a new row.
DefaultIsActive == TRUE
DefaultIsVerified == FALSE

\* db.commit() of a session whose object `id` had the columns of `changes`
\* assigned: one UPDATE of those columns.
UpdateRow(id, changes) == [users EXCEPT ![id] = changes @@ @]

---------------------------------------------------------------------------
(* Requests and responses *)

Idle == [op |-> "idle"]

\* A response: the route it answers, the status and the detail or message,
\* the tokens of its body, and the number of calls the handler made to the
\* mail sender.
Reply(route, status, detail) ==
    [route |-> route, status |-> status, detail |-> detail, mails |-> 0,
     access |-> NULL, refresh |-> NULL]
NoResp == Reply("", 0, "")
Mailed(r) == [r EXCEPT !.mails = 1]

Respond(c, r) ==
    /\ resp' = [resp EXCEPT ![c] = r]
    /\ req' = [req EXCEPT ![c] = Idle]

Goto(c, r) ==
    /\ req' = [req EXCEPT ![c] = r]
    /\ resp' = [resp EXCEPT ![c] = NoResp]

\* Of the tokens delivered to it, the receiver keeps some or none.  What
\* send_email returns does not tell whether the mail has left: it returns
\* False for an exception anywhere in its try block, server.quit() after
\* server.sendmail included, so the token of a send that reported failure
\* may be in the receiver's hands as well.
Keep(delivered) ==
    \E kept \in SUBSET delivered :
        /\ kept # {} => ~(kept \subseteq held) /\ Cardinality(held \cup kept) <= MaxHeld
        /\ held' = held \cup kept

Inserting == Cardinality({c \in Clients : req[c].op = "register" /\ req[c].pc = "commit"})

Init ==
    /\ users = <<>>
    /\ now = 0
    /\ req = [c \in Clients |-> Idle]
    /\ resp = [c \in Clients |-> NoResp]
    /\ held = {}

\* secrets.token_urlsafe(32): a value that is on no row, in no request in
\* flight and in no user's hands.  A value that is nowhere any more is as
\* good as a new one, so the least such number stands for it.
ResetTokensInUse ==
    {users[i].reset_token : i \in Ids}
        \cup held
        \cup {req[c].reset_token : c \in {d \in Clients : req[d].op = "forgot_password"}}
        \cup {req[c].token : c \in {d \in Clients : req[d].op = "reset_password"}}

create_reset_token ==
    LET used == {t.n : t \in {u \in ResetTokensInUse : u.kind = "opaque"}}
    IN  [kind |-> "opaque",
         n |-> CHOOSE n \in 1..(Cardinality(used) + 1) :
                   n \notin used /\ \A m \in 1..(n - 1) : m \in used]

---------------------------------------------------------------------------
(* UserResponse *)

\* UserResponse.Config sets orm_mode, a key model_validate does not read:
\* from_attributes keeps its default.
from_attributes == FALSE

\* UserResponse.model_validate(user) with a row of the table: the fields are
\* read off the object only under from_attributes; otherwise it raises a
\* ValidationError.
UserResponse_model_validate(user) ==
    IF from_attributes
    THEN [ok |-> TRUE, value |-> [email |-> user.email,
                                  is_active |-> user.is_active,
                                  is_verified |-> user.is_verified]]
    ELSE [ok |-> FALSE]

---------------------------------------------------------------------------
(* get_current_user: the gate of the protected routes *)

get_current_user(token) ==
    LET email == verify_token(token, "access", now)
        id == FindByEmail(email)
    IN  IF email = None
        THEN [user |-> 0, status |-> 401, detail |-> "Could not validate credentials"]
        ELSE IF id = 0
        THEN [user |-> 0, status |-> 401, detail |-> "User not found"]
        ELSE IF ~users[id].is_active
        THEN [user |-> 0, status |-> 400, detail |-> "Inactive user"]
        ELSE [user |-> id, status |-> 200, detail |-> ""]

---------------------------------------------------------------------------
(* POST /register *)

\* Mutant: register does not look for an existing account.
RegisterQuery_noCheck(c, email, password) ==
    /\ req[c] = Idle
    /\ Len(users) + Inserting < MaxUsers
    /\ Goto(c, [op |-> "register", pc |-> "commit",
                user |-> [email |-> email,
                          hashed_password |-> get_password_hash(password),
                          is_active |-> DefaultIsActive,
                          is_verified |-> DefaultIsVerified,
                          verification_token |->
                              create_email_verification_token(email, now),
                          reset_token |-> NULL,
                          reset_token_expires |-> NullTime]])
    /\ UNCHANGED <<users, now, held>>

RegisterQuery(c, email, password) ==
    /\ req[c] = Idle
    /\ IF FindByEmail(email) # 0
       THEN Respond(c, Reply("/register", 400, "Email already registered"))
       ELSE /\ Len(users) + Inserting < MaxUsers
            /\ Goto(c, [op |-> "register", pc |-> "commit",
                        user |-> [email |-> email,
                                  hashed_password |-> get_password_hash(password),
                                  is_active |-> DefaultIsActive,
                                  is_verified |-> DefaultIsVerified,
                                  verification_token |->
                                      create_email_verification_token(email, now),
                                  reset_token |-> NULL,
                                  reset_token_expires |-> NullTime]])
    /\ UNCHANGED <<users, now, held>>

\* db.add(user); db.commit().  A refused insert is an IntegrityError no
\* handler catches: the framework answers 500.
RegisterCommit(c) ==
    /\ req[c].op = "register" /\ req[c].pc = "commit"
    /\ IF InsertAllowed(req[c].user)
       THEN /\ users' = Append(users, req[c].user)
            /\ Goto(c, [req[c] EXCEPT !.pc = "send"])
       ELSE /\ users' = users
            /\ Respond(c, Reply("/register", 500, "Internal Server Error"))
    /\ UNCHANGED <<now, held>>

\* Mutant: register takes the row back when the mail is not sent.
RegisterSend_rollback(c, email_sent) ==
    /\ req[c].op = "register" /\ req[c].pc = "send"
    /\ IF email_sent
       THEN /\ Respond(c, Mailed(Reply("/register", 200, "User registered successfully. Please check your email to verify your account.")))
            /\ Keep({req[c].user.verification_token})
            /\ users' = users
       ELSE /\ Respond(c, Mailed(Reply("/register", 500, "Failed to send verification email")))
            /\ Keep({req[c].user.verification_token})
            /\ users' = SelectSeq(users, LAMBDA u : u.email # req[c].user.email)
    /\ UNCHANGED now

RegisterSend(c, email_sent) ==
    /\ req[c].op = "register" /\ req[c].pc = "send"
    /\ IF email_sent
       THEN /\ Respond(c, Mailed(Reply("/register", 200, "User registered successfully. Please check your email to verify your account.")))
            /\ Keep({req[c].user.verification_token})
       ELSE /\ Respond(c, Mailed(Reply("/register", 500, "Failed to send verification email")))
            /\ Keep({req[c].user.verification_token})
    /\ UNCHANGED <<users, now>>

---------------------------------------------------------------------------
(* POST /login *)

\* Mutant: login looks at is_active before it verifies the password.
login_activeFirst(email, password) ==
    LET id == FindByEmail(email) IN
    IF id = 0
    THEN Reply("/login", 401, "Incorrect email or password")
    ELSE IF ~users[id].is_active
    THEN Reply("/login", 400, "Account is deactivated")
    ELSE IF ~verify_password(password, users[id].hashed_password)
    THEN Reply("/login", 401, "Incorrect email or password")
    ELSE IF ~users[id].is_verified
    THEN Reply("/login", 400, "Email not verified. Please check your email and verify your account.")
    ELSE IF ~UserResponse_model_validate(users[id]).ok
    THEN Reply("/login", 500, "Internal Server Error")
    ELSE [Reply("/login", 200, users[id].email) EXCEPT
              !.access = create_access_token(users[id].email, now),
              !.refresh = create_refresh_token(users[id].email, now)]

\* The tokens are created, then the body is built: a ValidationError of
\* model_validate is caught by no handler and the framework answers 500.
login(email, password) ==
    LET id == FindByEmail(email) IN
    IF id = 0 \/ ~verify_password(password, users[id].hashed_password)
    THEN Reply("/login", 401, "Incorrect email or password")
    ELSE IF ~users[id].is_active
    THEN Reply("/login", 400, "Account is deactivated")
    ELSE IF ~users[id].is_verified
    THEN Reply("/login", 400, "Email not verified. Please check your email and verify your account.")
    ELSE IF ~UserResponse_model_validate(users[id]).ok
    THEN Reply("/login", 500, "Internal Server Error")
    ELSE [Reply("/login", 200, users[id].email) EXCEPT
              !.access = create_access_token(users[id].email, now),
              !.refresh = create_refresh_token(users[id].email, now)]

Login(c, email, password) ==
    /\ req[c] = Idle
    /\ Respond(c, login(email, password))
    /\ Keep({login(email, password).access, login(email, password).refresh} \ {NULL})
    /\ UNCHANGED <<users, now>>

---------------------------------------------------------------------------
(* POST /refresh *)

\* Mutant: a refresh that has succeeded invalidates the refresh tokens.
refresh_access_token_revoking(token) ==
    LET email == verify_token(token, "refresh", now)
        id == FindByEmail(email)
    IN  IF email = None
        THEN Reply("/refresh", 401, "Invalid refresh token")
        ELSE IF \E c \in Clients : resp[c].route = "/refresh" /\ resp[c].status = 200
        THEN Reply("/refresh", 401, "Invalid refresh token")
        ELSE IF id = 0 \/ ~users[id].is_active
        THEN Reply("/refresh", 401, "User not found or inactive")
        ELSE [Reply("/refresh", 200, "") EXCEPT
                  !.access = create_access_token(users[id].email, now),
                  !.refresh = create_refresh_token(users[id].email, now)]

\* Mutant: refresh does not look at is_active.
refresh_access_token_skipActive(token) ==
    LET email == verify_token(token, "refresh", now)
        id == FindByEmail(email)
    IN  IF email = None
        THEN Reply("/refresh", 401, "Invalid refresh token")
        ELSE IF id = 0
        THEN Reply("/refresh", 401, "User not found or inactive")
        ELSE [Reply("/refresh", 200, "") EXCEPT
                  !.access = create_access_token(users[id].email, now),
                  !.refresh = create_refresh_token(users[id].email, now)]

refresh_access_token(token) ==
    LET email == verify_token(token, "refresh", now)
        id == FindByEmail(email)
    IN  IF email = None
        THEN Reply("/refresh", 401, "Invalid refresh token")
        ELSE IF id = 0 \/ ~users[id].is_active
        THEN Reply("/refresh", 401, "User not found or inactive")
        ELSE [Reply("/refresh", 200, "") EXCEPT
                  !.access = create_access_token(users[id].email, now),
                  !.refresh = create_refresh_token(users[id].email, now)]

Refresh(c, token) ==
    /\ req[c] = Idle
    /\ Respond(c, refresh_access_token(token))
    /\ Keep({refresh_access_token(token).access,
             refresh_access_token(token).refresh} \ {NULL})
    /\ UNCHANGED <<users, now>>

---------------------------------------------------------------------------
(* POST /forgot-password *)

ForgotNotFoundReply ==
    Reply("/forgot-password", 200, "If the email exists in our system, you will receive a password reset link.")

ForgotSentReply ==
    Reply("/forgot-password", 200, "If the email exists in our system, you will receive a password reset link.")

\* Mutant: forgot-password calls the mail sender for an unknown email too.
ForgotQuery_mailsUnknown(c, email) ==
    /\ req[c] = Idle
    /\ IF FindByEmail(email) = 0
       THEN Respond(c, Mailed(ForgotNotFoundReply))
       ELSE Goto(c, [op |-> "forgot_password", pc |-> "commit",
                     user |-> FindByEmail(email),
                     reset_token |-> create_reset_token,
                     reset_expires |-> now + Hours(RESET_TOKEN_EXPIRE_HOURS),
                     loaded_expires |->
                         users[FindByEmail(email)].reset_token_expires])
    /\ UNCHANGED <<users, now, held>>

ForgotQuery(c, email) ==
    /\ req[c] = Idle
    /\ IF FindByEmail(email) = 0
       THEN Respond(c, ForgotNotFoundReply)
       ELSE Goto(c, [op |-> "forgot_password", pc |-> "commit",
                     user |-> FindByEmail(email),
                     reset_token |-> create_reset_token,
                     reset_expires |-> now + Hours(RESET_TOKEN_EXPIRE_HOURS),
                     loaded_expires |->
                         users[FindByEmail(email)].reset_token_expires])
    /\ UNCHANGED <<users, now, held>>

\* Mutant: forgot-password keeps the reset token a row already has.
ForgotCommit_keepsEarlier(c) ==
    /\ req[c].op = "forgot_password" /\ req[c].pc = "commit"
    /\ \E equal_reading \in BOOLEAN :
           /\ equal_reading => req[c].reset_expires = req[c].loaded_expires
           /\ users' = IF users[req[c].user].reset_token # NULL
                       THEN users
                       ELSE IF equal_reading
                       THEN UpdateRow(req[c].user,
                                      [reset_token |-> req[c].reset_token])
                       ELSE UpdateRow(req[c].user,
                                      [reset_token |-> req[c].reset_token,
                                       reset_token_expires |-> req[c].reset_expires])
    /\ Goto(c, [req[c] EXCEPT !.pc = "send"])
    /\ UNCHANGED <<now, held>>

\* user.reset_token = ...; user.reset_token_expires = ...; db.commit().  The
\* UPDATE has the columns whose assigned value differs from the loaded one.
\* The token is new.  The expiry is a reading of the clock: when it is, in
\* minutes, the expiry the session loaded, the two readings may be the same
\* (the UPDATE has the token alone) or not (it has both columns).
ForgotCommit(c) ==
    /\ req[c].op = "forgot_password" /\ req[c].pc = "commit"
    /\ \E equal_reading \in BOOLEAN :
           /\ equal_reading => req[c].reset_expires = req[c].loaded_expires
           /\ users' = IF equal_reading
                       THEN UpdateRow(req[c].user,
                                      [reset_token |-> req[c].reset_token])
                       ELSE UpdateRow(req[c].user,
                                      [reset_token |-> req[c].reset_token,
                                       reset_token_expires |-> req[c].reset_expires])
    /\ Goto(c, [req[c] EXCEPT !.pc = "send"])
    /\ UNCHANGED <<now, held>>

ForgotSend(c, email_sent) ==
    /\ req[c].op = "forgot_password" /\ req[c].pc = "send"
    /\ IF email_sent
       THEN /\ Respond(c, Mailed(ForgotSentReply))
            /\ Keep({req[c].reset_token})
       ELSE /\ Respond(c, Mailed(Reply("/forgot-password", 500, "Failed to send password reset email")))
            /\ Keep({req[c].reset_token})
    /\ UNCHANGED <<users, now>>

---------------------------------------------------------------------------
(* POST /reset-password *)

\* Mutant: reset-password does not compare the expiry with the clock.
ResetQuery_noExpiry(c, token, new_password) ==
    /\ req[c] = Idle
    /\ LET id == FindByResetToken(token) IN
       IF id = 0
       THEN Respond(c, Reply("/reset-password", 400, "Invalid reset token"))
       ELSE Goto(c, [op |-> "reset_password", pc |-> "commit", user |-> id,
                     token |-> token, new_password |-> new_password])
    /\ UNCHANGED <<users, now, held>>

ResetQuery(c, token, new_password) ==
    /\ req[c] = Idle
    /\ LET id == FindByResetToken(token) IN
       IF id = 0
       THEN Respond(c, Reply("/reset-password", 400, "Invalid reset token"))
       ELSE IF users[id].reset_token_expires = NullTime
       THEN Respond(c, Reply("/reset-password", 500, "Internal Server Error"))
       ELSE IF users[id].reset_token_expires < now
       THEN Respond(c, Reply("/reset-password", 400, "Reset token has expired"))
       ELSE Goto(c, [op |-> "reset_password", pc |-> "commit", user |-> id,
                     token |-> token, new_password |-> new_password])
    /\ UNCHANGED <<users, now, held>>

ResetCommit(c) ==
    /\ req[c].op = "reset_password" /\ req[c].pc = "commit"
    /\ users' = UpdateRow(req[c].user,
                          [hashed_password |-> get_password_hash(req[c].new_password),
                           reset_token |-> NULL,
                           reset_token_expires |-> NullTime])
    /\ Respond(c, Reply("/reset-password", 200, "Password reset successfully"))
    /\ UNCHANGED <<now, held>>

---------------------------------------------------------------------------
(* POST /change-password *)

\* Mutant: change-password does not verify the current password.
ChangeQuery_skipCurrent(c, token, current_password, new_password) ==
    /\ req[c] = Idle
    /\ LET auth == get_current_user(token) IN
       IF auth.user = 0
       THEN Respond(c, Reply("/change-password", auth.status, auth.detail))
       ELSE Goto(c, [op |-> "change_password", pc |-> "commit", user |-> auth.user,
                     new_password |-> new_password])
    /\ UNCHANGED <<users, now, held>>

ChangeQuery(c, token, current_password, new_password) ==
    /\ req[c] = Idle
    /\ LET auth == get_current_user(token) IN
       IF auth.user = 0
       THEN Respond(c, Reply("/change-password", auth.status, auth.detail))
       ELSE IF ~verify_password(current_password, users[auth.user].hashed_password)
       THEN Respond(c, Reply("/change-password", 400, "Current password is incorrect"))
       ELSE Goto(c, [op |-> "change_password", pc |-> "commit", user |-> auth.user,
                     new_password |-> new_password])
    /\ UNCHANGED <<users, now, held>>

ChangeCommit(c) ==
    /\ req[c].op = "change_password" /\ req[c].pc = "commit"
    /\ users' = UpdateRow(req[c].user,
                          [hashed_password |-> get_password_hash(req[c].new_password)])
    /\ Respond(c, Reply("/change-password", 200, "Password changed successfully"))
    /\ UNCHANGED <<now, held>>

---------------------------------------------------------------------------
(* GET /me *)

get_current_user_info(token) ==
    LET auth == get_current_user(token) IN
    IF auth.user = 0
    THEN Reply("/me", auth.status, auth.detail)
    ELSE IF ~UserResponse_model_validate(users[auth.user]).ok
    THEN Reply("/me", 500, "Internal Server Error")
    ELSE Reply("/me", 200, users[auth.user].email)

Me(c, token) ==
    /\ req[c] = Idle
    /\ Respond(c, get_current_user_info(token))
    /\ UNCHANGED <<users, now, held>>

---------------------------------------------------------------------------
(* POST /verify-email *)

\* Mutant: verify-email does not return early for a verified account.
VerifyQuery_noShortcut(c, token) ==
    /\ req[c] = Idle
    /\ LET email == verify_token(token, "email_verification", now)
           id == FindByEmail(email)
       IN  IF email = None
           THEN Respond(c, Reply("/verify-email", 400, "Invalid verification token"))
           ELSE IF id = 0
           THEN Respond(c, Reply("/verify-email", 404, "User not found"))
           ELSE Goto(c, [op |-> "verify_email", pc |-> "commit", user |-> id])
    /\ UNCHANGED <<users, now, held>>

VerifyQuery(c, token) ==
    /\ req[c] = Idle
    /\ LET email == verify_token(token, "email_verification", now)
           id == FindByEmail(email)
       IN  IF email = None
           THEN Respond(c, Reply("/verify-email", 400, "Invalid verification token"))
           ELSE IF id = 0
           THEN Respond(c, Reply("/verify-email", 404, "User not found"))
           ELSE IF users[id].is_verified
           THEN Respond(c, Reply("/verify-email", 200, "Email already verified"))
           ELSE Goto(c, [op |-> "verify_email", pc |-> "commit", user |-> id])
    /\ UNCHANGED <<users, now, held>>

\* Mutant: verify-email leaves the verification token on the row.
VerifyCommit_keepsToken(c) ==
    /\ req[c].op = "verify_email" /\ req[c].pc = "commit"
    /\ users' = UpdateRow(req[c].user, [is_verified |-> TRUE])
    /\ Respond(c, Reply("/verify-email", 200, "Email verified successfully"))
    /\ UNCHANGED <<now, held>>

VerifyCommit(c) ==
    /\ req[c].op = "verify_email" /\ req[c].pc = "commit"
    /\ users' = UpdateRow(req[c].user,
                          [is_verified |-> TRUE, verification_token |-> NULL])
    /\ Respond(c, Reply("/verify-email", 200, "Email verified successfully"))
    /\ UNCHANGED <<now, held>>

---------------------------------------------------------------------------
(* POST /resend-verification *)

ResendQuery(c, email) ==
    /\ req[c] = Idle
    /\ LET id == FindByEmail(email) IN
       IF id = 0
       THEN Respond(c, Reply("/resend-verification", 404, "User not found"))
       ELSE IF users[id].is_verified
       THEN Respond(c, Reply("/resend-verification", 200, "Email already verified"))
       ELSE Goto(c, [op |-> "resend_verification", pc |-> "commit", user |-> id,
                     loaded |-> users[id].verification_token,
                     verification_token |->
                         create_email_verification_token(users[id].email, now)])
    /\ UNCHANGED <<users, now, held>>

\* user.verification_token = verification_token; db.commit().  The session
\* compares the value assigned with the one it loaded: when they are equal
\* (a token made in the instant of the one on the row) the attribute has no
\* change and the commit sends no UPDATE.
ResendCommit(c) ==
    /\ req[c].op = "resend_verification" /\ req[c].pc = "commit"
    /\ users' = IF req[c].verification_token = req[c].loaded
                THEN users
                ELSE UpdateRow(req[c].user,
                               [verification_token |-> req[c].verification_token])
    /\ Goto(c, [req[c] EXCEPT !.pc = "send"])
    /\ UNCHANGED <<now, held>>

ResendSend(c, email_sent) ==
    /\ req[c].op = "resend_verification" /\ req[c].pc = "send"
    /\ IF email_sent
       THEN /\ Respond(c, Mailed(Reply("/resend-verification", 200, "Verification email sent successfully")))
            /\ Keep({req[c].verification_token})
       ELSE /\ Respond(c, Mailed(Reply("/resend-verification", 500, "Failed to send verification email")))
            /\ Keep({req[c].verification_token})
    /\ UNCHANGED <<users, now>>

---------------------------------------------------------------------------
(* Environment *)

\* The clock advances.
Tick(t) ==
    /\ t > now
    /\ now' = t
    /\ UNCHANGED <<users, req, resp, held>>

\* An account is deactivated: the flag is flipped in the table.
Deactivate ==
    \E id \in Ids :
    /\ users[id].is_active
    /\ users' = UpdateRow(id, [is_active |-> FALSE])
    /\ UNCHANGED <<now, req, resp, held>>

\* A user discards a token.
Forget ==
    \E token \in held :
    /\ held' = held \ {token}
    /\ UNCHANGED <<users, now, req, resp>>

---------------------------------------------------------------------------
(* Specifications *)

\* The requests that carry a token: the caller presents one it holds, a
\* string that is no token, or a forged one.
RefreshRequest(c) == \E token \in TokenInputs : Refresh(c, token)
MeRequest(c) == \E token \in TokenInputs : Me(c, token)
VerifyRequest(c) == \E token \in TokenInputs : VerifyQuery(c, token)
ResetRequest(c) ==
    \E token \in TokenInputs, p \in Passwords : ResetQuery(c, token, p)
ChangeRequest(c) ==
    \E token \in TokenInputs, p \in Passwords, q \in Passwords :
        ChangeQuery(c, token, p, q)

\* The handlers that take no bearer token and write to the table.
Writers(c) ==
    \/ \E e \in Registrable, p \in Passwords : RegisterQuery(c, e, p)
    \/ RegisterCommit(c)
    \/ \E ok \in BOOLEAN : RegisterSend(c, ok)
    \/ \E e \in Emails : ForgotQuery(c, e)
    \/ ForgotCommit(c)
    \/ \E ok \in BOOLEAN : ForgotSend(c, ok)
    \/ ResetRequest(c)
    \/ ResetCommit(c)
    \/ VerifyRequest(c)
    \/ VerifyCommit(c)
    \/ \E e \in Emails : ResendQuery(c, e)
    \/ ResendCommit(c)
    \/ \E ok \in BOOLEAN : ResendSend(c, ok)

\* One client at a time: the handlers run one after the other, while the
\* clock advances and accounts are deactivated.
Next ==
    \/ Writers(1)
    \/ \E e \in Emails, p \in Passwords : Login(1, e, p)
    \/ RefreshRequest(1)
    \/ ChangeRequest(1)
    \/ ChangeCommit(1)
    \/ MeRequest(1)
    \/ \E t \in Instants : Tick(t)
    \/ Deactivate
    \/ Forget

Spec == Init /\ [][Next]_vars

\* Two clients whose handlers interleave, at one instant: registration,
\* verification and password recovery, the flows that run on tokens sent by
\* mail.
NextRace ==
    \/ \E c \in Clients : Writers(c)
    \/ Forget

SpecRace == Init /\ [][NextRace]_vars

\* Registration and verification of two clients whose handlers interleave
\* while the clock advances, so that a verification token made later differs
\* from the one on the row.
VerifyWriters(c) ==
    \/ \E e \in Registrable, p \in Passwords : RegisterQuery(c, e, p)
    \/ RegisterCommit(c)
    \/ \E ok \in BOOLEAN : RegisterSend(c, ok)
    \/ VerifyRequest(c)
    \/ VerifyCommit(c)
    \/ \E e \in Emails : ResendQuery(c, e)
    \/ ResendCommit(c)
    \/ \E ok \in BOOLEAN : ResendSend(c, ok)

NextVerifyRace ==
    \/ \E c \in Clients : VerifyWriters(c)
    \/ \E t \in Instants : Tick(t)
    \/ Forget

SpecVerifyRace == Init /\ [][NextVerifyRace]_vars

---------------------------------------------------------------------------
(* Properties *)

\* C1: login answers with an access and a refresh token exactly when the
\* account exists, the password verifies against the stored hash, is_active
\* and is_verified; the tokens decode to the account; a login that fails
\* only on is_verified is rejected as not verified.
C1_LoginIffPreconditions ==
    [][\A e \in Emails, p \in Passwords :
        Login(1, e, p) =>
            LET id == FindByEmail(e)
                known == id # 0 /\ verify_password(p, users[id].hashed_password)
                pre == known /\ users[id].is_active /\ users[id].is_verified
                r == resp'[1]
            IN  /\ (r.status = 200 /\ r.access # NULL /\ r.refresh # NULL) <=> pre
                /\ ~pre => r.status # 200 /\ r.access = NULL /\ r.refresh = NULL
                /\ pre => /\ verify_token(r.access, "access", now) = e
                          /\ verify_token(r.refresh, "refresh", now) = e
                /\ (known /\ users[id].is_active /\ ~users[id].is_verified) =>
                       /\ r.status = 400
                       /\ r.detail = "Email not verified. Please check your email and verify your account."
                /\ users' = users
      ]_vars

\* C2: a token a user holds is accepted by verify_token under an expected
\* type only if it was issued as that type (an access token is the one
\* issued without a type claim), and get_current_user admits access tokens
\* only.
C2_TypeDiscrimination ==
    \A t \in {h \in held : h.kind = "jwt"} :
        LET issued == IF t.payload.type = None THEN "access" ELSE t.payload.type IN
        /\ \A ty \in {"access", "refresh", "email_verification"} :
               verify_token(t, ty, now) # None => issued = ty
        /\ get_current_user(t).user # 0 => issued = "access"

\* C3: every answer of forgot-password for an existing account, whatever
\* the mail sender returned, has the status and the text of the answer for
\* an unknown email.
C3_ForgotSameResponse ==
    [][\A c \in Clients, ok \in BOOLEAN :
        ForgotSend(c, ok) =>
            /\ resp'[c].status = ForgotNotFoundReply.status
            /\ resp'[c].detail = ForgotNotFoundReply.detail
      ]_vars

\* C4: a failed send is not answered with a server error by
\* forgot-password, and is answered with one by register and by
\* resend-verification.
C4_ForgotMasksSinkFailure ==
    [][\A c \in Clients :
        /\ ForgotSend(c, FALSE) => resp'[c].status < 500
        /\ RegisterSend(c, FALSE) => resp'[c].status = 500
        /\ ResendSend(c, FALSE) => resp'[c].status = 500
      ]_vars

\* C5: a reset token authorizes at most one password replacement: when a
\* reset-password replaces the hash and clears the token it was called
\* with, no other reset-password accepted on that token is left in flight
\* to replace the hash again.
C5_ResetTokenSingleUse ==
    [][\A c \in Clients :
        (ResetCommit(c) /\ users[req[c].user].reset_token = req[c].token) =>
            \A d \in Clients \ {c} :
                ~(/\ req'[d].op = "reset_password"
                  /\ req'[d].pc = "commit"
                  /\ req'[d].token = req[c].token)
      ]_vars

\* A verification token that has been consumed: it decodes to an account
\* that is verified and whose verification_token is cleared.
ConsumedVerification(token) ==
    LET email == verify_token(token, "email_verification", now)
        id == FindByEmail(email)
    IN  /\ email # None
        /\ id # 0
        /\ users[id].is_verified
        /\ users[id].verification_token = NULL

\* C6 as stated: verify-email with a token that has been consumed fails as
\* an invalid token.
C6_SecondVerifyInvalid ==
    [][\A c \in Clients, t \in TokenInputs :
        (VerifyQuery(c, t) /\ ConsumedVerification(t)) =>
            /\ resp'[c].status = 400
            /\ resp'[c].detail = "Invalid verification token"
      ]_vars

\* C6 as amended: the first verify-email sets is_verified and clears
\* verification_token and answers success; verify-email with the same,
\* consumed token answers 200 "Email already verified" and changes nothing.
C6_SecondVerifyAlreadyVerified ==
    [][\A c \in Clients :
        /\ VerifyCommit(c) =>
               /\ users'[req[c].user].is_verified
               /\ users'[req[c].user].verification_token = NULL
               /\ resp'[c].status = 200
               /\ resp'[c].detail = "Email verified successfully"
        /\ \A t \in TokenInputs :
               (VerifyQuery(c, t) /\ ConsumedVerification(t)) =>
                   /\ resp'[c].status = 200
                   /\ resp'[c].detail = "Email already verified"
                   /\ users' = users
      ]_vars

\* C6 witness: the second call has been answered, and the token is still
\* at hand.
C6_Witness ==
    /\ resp[1].route = "/verify-email"
    /\ resp[1].detail = "Email already verified"
    /\ \E t \in held : ConsumedVerification(t)

\* C7: verify-email with a token that decodes as email_verification to an
\* existing, verified account answers success and leaves the table as it
\* was.
C7_VerifyIdempotent ==
    [][\A c \in Clients, t \in TokenInputs :
        LET email == verify_token(t, "email_verification", now)
            id == FindByEmail(email)
        IN  (VerifyQuery(c, t) /\ email # None /\ id # 0 /\ users[id].is_verified) =>
                /\ resp'[c].status = 200
                /\ users' = users
                /\ req'[c] = Idle
      ]_vars

\* C7 witness: verify-email has answered success for a verified account.
C7_Witness ==
    /\ resp[1].route = "/verify-email"
    /\ resp[1].status = 200
    /\ resp[1].detail = "Email already verified"
    /\ \E i \in Ids : users[i].is_verified

\* C8: register for an email that has an account answers 400 "Email already
\* registered", leaves the table as it was and makes no call to the mail
\* sender.
C8_RegisterConflict ==
    [][\A c \in Clients, e \in Registrable, p \in Passwords :
        (RegisterQuery(c, e, p) /\ FindByEmail(e) # 0) =>
            /\ resp'[c].status = 400
            /\ resp'[c].detail = "Email already registered"
            /\ resp'[c].mails = 0
            /\ users' = users
            /\ held' = held
            /\ req'[c] = Idle
      ]_vars

\* C8 witness: a register has been refused while the account is there.
C8_Witness ==
    /\ resp[1].route = "/register"
    /\ resp[1].status = 400
    /\ Len(users) = 1

\* C9: no two rows of the table have the same email.
C9_EmailUnique ==
    \A i \in Ids, j \in Ids : i # j => users[i].email # users[j].email

\* C9 witness: of two registers that both found no account, one has
\* inserted its row and the other's insert was refused.
C9_Witness ==
    /\ Len(users) = 1
    /\ \E c \in Clients :
           /\ resp[c].route = "/register"
           /\ resp[c].status = 500
           /\ resp[c].detail = "Internal Server Error"

\* C10: reset-password with a token that is on a row whose expiry is in the
\* past answers "Reset token has expired", not the invalid-token error, and
\* leaves the row as it was, token and expiry included.
C10_ExpiredResetRejected ==
    [][\A c \in Clients, t \in TokenInputs, p \in Passwords :
        LET id == FindByResetToken(t) IN
        (ResetQuery(c, t, p) /\ id # 0 /\ users[id].reset_token_expires < now) =>
            /\ resp'[c].status = 400
            /\ resp'[c].detail = "Reset token has expired"
            /\ resp'[c].detail # "Invalid reset token"
            /\ users' = users
            /\ users'[id].reset_token = t
            /\ req'[c] = Idle
      ]_vars

\* C10 witness: the expired answer has been given and the expired token is
\* still on the row.
C10_Witness ==
    /\ resp[1].route = "/reset-password"
    /\ resp[1].detail = "Reset token has expired"
    /\ \E i \in Ids :
           /\ users[i].reset_token \in held
           /\ users[i].reset_token_expires < now

\* C11: an account has at most one live reset token, the one of the last
\* forgot-password that committed: the commit overwrites the column, so that
\* every other reset token in existence is on the row no more; and
\* reset-password answers "Invalid reset token" to exactly the tokens that
\* are on no row.
C11_OneLiveResetToken ==
    [][\A c \in Clients :
        /\ ForgotCommit(c) =>
               /\ users'[req[c].user].reset_token = req[c].reset_token
               /\ \A t \in ResetTokensInUse \ {req[c].reset_token} :
                      users'[req[c].user].reset_token # t
        /\ \A t \in TokenInputs, p \in Passwords :
               ResetQuery(c, t, p) =>
                   IF \E i \in Ids : users[i].reset_token = t
                   THEN resp'[c].detail # "Invalid reset token"
                   ELSE /\ resp'[c].status = 400
                        /\ resp'[c].detail = "Invalid reset token"
                        /\ req'[c] = Idle
                        /\ users' = users
      ]_vars

\* C11 witness: a user holds a reset token of an earlier forgot-password,
\* the row has the token of a later one, and reset-password has answered
\* that the token is invalid.
C11_Witness ==
    \E c \in Clients, t \in held, i \in Ids :
        /\ t.kind = "opaque"
        /\ users[i].reset_token # NULL
        /\ users[i].reset_token # t
        /\ resp[c].route = "/reset-password"
        /\ resp[c].detail = "Invalid reset token"

\* C12: a token whose exp is before the clock decodes under no expected
\* type; get_current_user (GET /me, change-password), refresh and
\* verify-email reject it and leave the table as it was.
C12_ExpiredTokenRejected ==
    [][\A c \in Clients :
        \A t \in {h \in held : h.kind = "jwt" /\ h.payload.exp < now} :
            /\ \A ty \in {"access", "refresh", "email_verification"} :
                   verify_token(t, ty, now) = None
            /\ get_current_user(t).user = 0
            /\ Me(c, t) => resp'[c].status = 401 /\ users' = users
            /\ Refresh(c, t) =>
                   /\ resp'[c].status = 401
                   /\ resp'[c].access = NULL /\ resp'[c].refresh = NULL
                   /\ users' = users /\ held' = held
            /\ VerifyQuery(c, t) =>
                   /\ resp'[c].status = 400
                   /\ resp'[c].detail = "Invalid verification token"
                   /\ req'[c] = Idle /\ users' = users
            /\ \A p \in Passwords, q \in Passwords :
                   ChangeQuery(c, t, p, q) =>
                       /\ resp'[c].status = 401
                       /\ req'[c] = Idle /\ users' = users
      ]_vars

\* C12 witness: verify-email has rejected the verification token of an
\* account past its hours, and the account is still unverified.
C12_Witness ==
    \E t \in held, i \in Ids :
        /\ t.kind = "jwt" /\ t.payload.type = "email_verification"
        /\ t.payload.exp < now
        /\ users[i].verification_token = t
        /\ ~users[i].is_verified
        /\ resp[1].route = "/verify-email"
        /\ resp[1].status = 400
        /\ resp[1].detail = "Invalid verification token"

\* C13: a protected flow (GET /me, change-password; the product and
\* translation routes take the same get_current_user dependency) goes past
\* the gate only with an unexpired token issued as an access token under
\* the key, whose subject is an account with is_active true.
C13_ProtectedGate ==
    [][\A c \in Clients, t \in TokenInputs :
        LET pre == /\ t.kind = "jwt" /\ t.key = SECRET_KEY
                   /\ ~(t.payload.exp < now)
                   /\ t.payload.type = None
                   /\ FindByEmail(t.payload.sub) # 0
                   /\ users[FindByEmail(t.payload.sub)].is_active
        IN  /\ (Me(c, t) /\ resp'[c].status = 200) => pre
            /\ \A p \in Passwords, q \in Passwords :
                   (ChangeQuery(c, t, p, q) /\ req'[c].op = "change_password") => pre
      ]_vars

\* C14: when the mail of register is not sent, the answer is a server
\* error and the row stays: the account is in the table, unverified, with
\* the verification token of the request; and a register for an email that
\* is in the table after such a failure answers the conflict error.
C14_RegisterSinkFailureKeepsRow ==
    [][\A c \in Clients :
        /\ RegisterSend(c, FALSE) =>
               LET id == FindByEmail(req[c].user.email) IN
               /\ resp'[c].status = 500
               /\ resp'[c].detail = "Failed to send verification email"
               /\ users' = users
               /\ id # 0
               /\ ~users'[id].is_verified
               /\ users'[id].verification_token = req[c].user.verification_token
        /\ \A e \in Registrable, p \in Passwords :
               (/\ resp[c].route = "/register" /\ resp[c].status = 500
                /\ resp[c].mails = 1
                /\ RegisterQuery(c, e, p)) =>
                   /\ FindByEmail(e) # 0
                   /\ resp'[c].status = 400
                   /\ resp'[c].detail = "Email already registered"
                   /\ users' = users
      ]_vars

\* C14 witness: register has answered that the mail was not sent, and the
\* account is in the table, unverified, with a verification token.
C14_Witness ==
    /\ resp[1].route = "/register"
    /\ resp[1].status = 500
    /\ resp[1].detail = "Failed to send verification email"
    /\ \E i \in Ids :
           /\ ~users[i].is_verified
           /\ users[i].verification_token # NULL

\* C15: refresh answers with a new access and refresh token exactly when
\* the token is signed with the key, unexpired, of type "refresh", and its
\* subject is an account with is_active true; otherwise it answers 401 with
\* no token; the table is never changed.
C15_RefreshIffPreconditions ==
    [][\A c \in Clients, t \in TokenInputs :
        Refresh(c, t) =>
            LET ok == /\ t.kind = "jwt" /\ t.key = SECRET_KEY
                      /\ ~(t.payload.exp < now)
                      /\ t.payload.type = "refresh"
                id == IF ok THEN FindByEmail(t.payload.sub) ELSE 0
                pre == ok /\ id # 0 /\ users[id].is_active
                r == resp'[c]
            IN  /\ (r.status = 200 /\ r.access # NULL /\ r.refresh # NULL) <=> pre
                /\ ~pre => /\ r.status = 401
                           /\ r.access = NULL /\ r.refresh = NULL
                           /\ held' = held
                /\ pre => /\ verify_token(r.access, "access", now) = t.payload.sub
                          /\ verify_token(r.refresh, "refresh", now) = t.payload.sub
                /\ users' = users
      ]_vars

\* C15 witness: refresh has answered with a pair for an active account.
C15_Witness ==
    /\ resp[1].route = "/refresh"
    /\ resp[1].status = 200
    /\ resp[1].access # NULL /\ resp[1].refresh # NULL
    /\ \E i \in Ids : users[i].is_active /\ users[i].is_verified

\* C16: on every row, verification_token is non-null exactly when the
\* account is unverified.
C16_VerificationTokenIffUnverified ==
    \A i \in Ids : (users[i].verification_token # NULL) <=> ~users[i].is_verified

C18_ResetStrictlyBeforeExpiry ==
    [][\A c \in Clients, t \in TokenInputs, p \in Passwords :
        LET id == FindByResetToken(t) IN
        (ResetQuery(c, t, p) /\ id # 0) =>
            IF now < users[id].reset_token_expires
            THEN req'[c].op = "reset_password"
            ELSE /\ req'[c] = Idle
                 /\ resp'[c].detail = "Reset token has expired"
      ]_vars

\* C19: no token a user holds passes get_current_user for an account whose
\* is_verified is false.
C19_UnverifiedCannotAuthenticate ==
    \A t \in held :
        get_current_user(t).user # 0 => users[get_current_user(t).user].is_verified

\* C20: change-password goes on to replace the hash exactly when the token
\* passes get_current_user and the current password verifies against the
\* stored hash; with a wrong current password it answers 400 and the table
\* is as it was; its commit writes the hash of the new password and no
\* other column of any row.
C20_ChangePasswordFrame ==
    [][\A c \in Clients :
        /\ \A t \in TokenInputs, p \in Passwords, q \in Passwords :
               ChangeQuery(c, t, p, q) =>
                   LET a == get_current_user(t)
                       pre == /\ a.user # 0
                              /\ verify_password(p, users[a.user].hashed_password)
                   IN  /\ users' = users
                       /\ (req'[c].op = "change_password") <=> pre
                       /\ pre => /\ req'[c].user = a.user
                                 /\ req'[c].new_password = q
                       /\ (a.user # 0 /\ ~pre) =>
                              /\ resp'[c].status = 400
                              /\ resp'[c].detail = "Current password is incorrect"
                       /\ a.user = 0 => resp'[c].status \in {400, 401}
        /\ ChangeCommit(c) =>
               /\ Len(users') = Len(users)
               /\ users'[req[c].user].hashed_password =
                      get_password_hash(req[c].new_password)
               /\ resp'[c].status = 200
               /\ \A i \in Ids :
                      /\ i # req[c].user => users'[i] = users[i]
                      /\ \A f \in {"email", "is_active", "is_verified",
                                    "verification_token", "reset_token",
                                    "reset_token_expires"} :
                             users'[i][f] = users[i][f]
      ]_vars

\* C20 witness: change-password has replaced the hash of an account that
\* has a reset pending.
C20_Witness ==
    /\ resp[1].route = "/change-password"
    /\ resp[1].status = 200
    /\ resp[1].detail = "Password changed successfully"
    /\ \E i \in Ids :
           /\ users[i].is_verified
           /\ users[i].reset_token # NULL

\* C21: the hash of an account is written by register, reset-password and
\* change-password only, each with the hash of the password it was called
\* with; and login for an active, verified account succeeds with p exactly
\* when p is the password the hash on the row was made of, and answers 401
\* "Incorrect email or password" to every other password.
C21_LatestPasswordWins ==
    [][/\ \A c \in Clients :
              /\ \A e \in Registrable, q \in Passwords :
                     (RegisterQuery(c, e, q) /\ req'[c].op = "register") =>
                         req'[c].user.hashed_password = get_password_hash(q)
              /\ (RegisterCommit(c) /\ Len(users') > Len(users)) =>
                     users'[Len(users')].hashed_password = req[c].user.hashed_password
              /\ ResetCommit(c) =>
                     users'[req[c].user].hashed_password =
                         get_password_hash(req[c].new_password)
              /\ ChangeCommit(c) =>
                     users'[req[c].user].hashed_password =
                         get_password_hash(req[c].new_password)
       /\ \A i \in Ids :
              users'[i].hashed_password # users[i].hashed_password =>
                  \E c \in Clients :
                      /\ ResetCommit(c) \/ ChangeCommit(c)
                      /\ req[c].user = i
       /\ \A c \in Clients, e \in Emails, p \in Passwords, q \in Passwords :
              LET id == FindByEmail(e) IN
              (/\ Login(c, e, p)
               /\ id # 0
               /\ users[id].is_active /\ users[id].is_verified
               /\ users[id].hashed_password = get_password_hash(q)) =>
                  IF p = q
                  THEN resp'[c].status = 200
                  ELSE /\ resp'[c].status = 401
                       /\ resp'[c].detail = "Incorrect email or password"
      ]_vars

\* C22: forgot-password for an email with no account answers at once,
\* writes nothing to the table and makes no call to the mail sender; for
\* an account it takes a new token and the expiry, commits them to the row,
\* and then calls the mail sender once, whatever the sender returns.
C22_ForgotFrame ==
    [][\A c \in Clients :
        /\ \A e \in Emails :
               ForgotQuery(c, e) =>
                   /\ users' = users
                   /\ held' = held
                   /\ IF FindByEmail(e) = 0
                      THEN /\ req'[c] = Idle
                           /\ resp'[c].status = 200
                           /\ resp'[c].mails = 0
                      ELSE /\ req'[c].op = "forgot_password"
                           /\ req'[c].pc = "commit"
                           /\ req'[c].user = FindByEmail(e)
                           /\ req'[c].reset_token \notin ResetTokensInUse
                           /\ resp'[c].mails = 0
        /\ ForgotCommit(c) =>
               /\ users'[req[c].user].reset_token = req[c].reset_token
               /\ users'[req[c].user].reset_token_expires = req[c].reset_expires
               /\ req'[c].pc = "send"
               /\ resp'[c].mails = 0
        /\ \A ok \in BOOLEAN :
               ForgotSend(c, ok) =>
                   /\ users[req[c].user].reset_token = req[c].reset_token
                   /\ users[req[c].user].reset_token_expires = req[c].reset_expires
                   /\ resp'[c].mails = 1
                   /\ req'[c] = Idle
                   /\ users' = users
      ]_vars

\* C22 witness: forgot-password has answered without a call to the mail
\* sender while the table has an account, and no row has a reset token.
C22_Witness ==
    /\ resp[1].route = "/forgot-password"
    /\ resp[1].status = 200
    /\ resp[1].mails = 0
    /\ Len(users) > 0
    /\ \A i \in Ids :
           /\ users[i].reset_token = NULL
           /\ users[i].reset_token_expires = NullTime

\* C23: login with a password that does not verify answers the one 401
\* "Incorrect email or password", whether the email is unknown or the
\* account is inactive, unverified or usable; "Account is deactivated" is
\* answered only when the password verifies and is_active is false, the
\* not-verified error only when the password verifies, is_active is true
\* and is_verified is false.
C23_LoginLeaksNothing ==
    [][\A c \in Clients, e \in Emails, p \in Passwords :
        Login(c, e, p) =>
            LET id == FindByEmail(e)
                correct == /\ id # 0
                           /\ users[id].hashed_password = get_password_hash(p)
                r == resp'[c]
            IN  /\ ~correct => r = Reply("/login", 401, "Incorrect email or password")
                /\ r.detail = "Account is deactivated" <=>
                       (correct /\ ~users[id].is_active)
                /\ r.detail = "Email not verified. Please check your email and verify your account." <=>
                       (correct /\ users[id].is_active /\ ~users[id].is_verified)
      ]_vars

\* C23 witness: login has answered 401 while the only account is
\* deactivated.
C23_Witness ==
    /\ resp[1].route = "/login"
    /\ resp[1].status = 401
    /\ Len(users) > 0
    /\ \A i \in Ids : ~users[i].is_active

\* C24: a refresh that succeeds leaves the token it was called with good:
\* right after it, and in every state where the token is unexpired and its
\* account is there and active, refresh with that token succeeds.
C24_RefreshTokenReusable ==
    [][/\ \A c \in Clients, t \in TokenInputs :
              (Refresh(c, t) /\ resp'[c].status = 200) =>
                  (refresh_access_token(t).status = 200)'
       /\ \A t \in held' :
              (/\ t.kind = "jwt" /\ t.payload.type = "refresh"
               /\ ~(t.payload.exp < now')
               /\ \E i \in 1..Len(users') :
                      users'[i].email = t.payload.sub /\ users'[i].is_active) =>
                  (refresh_access_token(t).status = 200)'
      ]_vars

\* C24 witness: refresh has succeeded, at an instant after the token's
\* issue, with a token that is still held and still good.
C24_Witness ==
    /\ resp[1].route = "/refresh"
    /\ resp[1].status = 200
    /\ \E t \in held :
           /\ t.kind = "jwt" /\ t.payload.type = "refresh"
           /\ resp[1].refresh # t
           /\ refresh_access_token(t).status = 200

====
